---- MODULE Spec2Model ----
(***************************************************************************)
(* Model of processor.py: threshold secret reconstruction over the         *)
(* integers.  solve_secret validates n and k, resolves the raw share       *)
(* expressions into (x, y) points, interpolates every k-combination at     *)
(* x = 0 with lagrange_constant_term, tallies the successful results in a  *)
(* Counter and returns the most common one.                                *)
(***************************************************************************)
EXTENDS Integers, Sequences, FiniteSets

(* ----------------------------- bounds ---------------------------------- *)
\* Largest number of raw share records in an input document, and largest
\* number of points handed to the interpolator.
MaxShares == 3

(* ------------------------ Python integer arithmetic -------------------- *)
Abs(a) == IF a < 0 THEN -a ELSE a

\* Python's // : floor division, any non-zero divisor.
PyFloorDiv(a, b) ==
    LET q == Abs(a) \div Abs(b)
        exact == (Abs(a) % Abs(b)) = 0
    IN  IF (a < 0) = (b < 0) \/ a = 0 THEN q
        ELSE IF exact THEN -q ELSE -q - 1

\* Python's % : the remainder has the sign of the divisor.
PyMod(a, b) == a - b * PyFloorDiv(a, b)

RECURSIVE Euclid(_, _)
Euclid(a, b) == IF b = 0 THEN a ELSE Euclid(b, a % b)

\* math.gcd: non-negative gcd of the absolute values.
gcd(a, b) == Euclid(Abs(a), Abs(b))

(* ------------------- 1. helper functions (FUNCTION_MAP) ---------------- *)
Ok(v) == [kind |-> "ok", value |-> v]
Err(e) == [kind |-> e, value |-> 0]

RECURSIVE SumFrom(_, _)
SumFrom(args, i) == IF i > Len(args) THEN 0 ELSE args[i] + SumFrom(args, i + 1)

py_sum(args) == Ok(SumFrom(args, 1))

\* Variant of py_multiply whose accumulator starts at 0.
py_multiply_zero(args) == Ok(0)

RECURSIVE MulLoop(_, _, _)
MulLoop(args, i, res) ==
    IF i > Len(args) THEN res ELSE MulLoop(args, i + 1, res * args[i])

py_multiply(args) == Ok(MulLoop(args, 1, 1))

RECURSIVE HcfLoop(_, _, _)
HcfLoop(args, i, result) ==
    IF i > Len(args) THEN result ELSE HcfLoop(args, i + 1, gcd(result, args[i]))

py_hcf(args) ==
    IF Len(args) = 0 THEN Err("ValueError") ELSE Ok(HcfLoop(args, 2, args[1]))

RECURSIVE LcmLoop(_, _, _)
LcmLoop(args, i, result) ==
    IF i > Len(args) THEN result
    ELSE IF result = 0 \/ args[i] = 0 THEN LcmLoop(args, i + 1, 0)
    ELSE LcmLoop(args, i + 1,
                 PyFloorDiv(Abs(result * args[i]), gcd(result, args[i])))

py_lcm(args) ==
    IF Len(args) = 0 THEN Err("ValueError") ELSE Ok(LcmLoop(args, 2, args[1]))

\* A name is the sequence of its characters.
FunctionNames == {<<"s", "u", "m">>,
                  <<"m", "u", "l", "t", "i", "p", "l", "y">>,
                  <<"h", "c", "f">>,
                  <<"l", "c", "m">>}

\* str.lower() on one character: the capital letters map to their small
\* letters, every other character of a \w+ name (small letters, digits,
\* underscore) is left as it is.
LowerChar(c) ==
    CASE c = "A" -> "a"
      [] c = "B" -> "b"
      [] c = "C" -> "c"
      [] c = "D" -> "d"
      [] c = "E" -> "e"
      [] c = "F" -> "f"
      [] c = "G" -> "g"
      [] c = "H" -> "h"
      [] c = "I" -> "i"
      [] c = "J" -> "j"
      [] c = "K" -> "k"
      [] c = "L" -> "l"
      [] c = "M" -> "m"
      [] c = "N" -> "n"
      [] c = "O" -> "o"
      [] c = "P" -> "p"
      [] c = "Q" -> "q"
      [] c = "R" -> "r"
      [] c = "S" -> "s"
      [] c = "T" -> "t"
      [] c = "U" -> "u"
      [] c = "V" -> "v"
      [] c = "W" -> "w"
      [] c = "X" -> "x"
      [] c = "Y" -> "y"
      [] c = "Z" -> "z"
      [] OTHER -> c

\* str.lower() (line 59).
Lower(name) == [i \in 1..Len(name) |-> LowerChar(name[i])]

(* ------------- 2. share expression -> integer value -------------------- *)
\* A share expression is what the regular expression of line 55 and int()
\* of line 71 make of the string "name(a1,...,am)": whether the pattern
\* matched, the characters of the name, and per argument whether int()
\* accepts it and the integer it denotes.
compute_share_value(func_str) ==
    IF ~func_str.matched THEN Err("ValueError")
    ELSE LET func_name == Lower(func_str.fn)
         IN  IF func_name \notin FunctionNames THEN Err("ValueError")
             ELSE IF \E i \in 1..Len(func_str.args) : ~func_str.args[i].int
                  THEN Err("ValueError")
             ELSE LET args == [i \in 1..Len(func_str.args) |->
                                 func_str.args[i].value]
                  IN  CASE func_name = <<"s", "u", "m">> -> py_sum(args)
                        [] func_name = <<"m", "u", "l", "t", "i", "p", "l", "y">> -> py_multiply(args)
                        [] func_name = <<"h", "c", "f">> -> py_hcf(args)
                        [] func_name = <<"l", "c", "m">> -> py_lcm(args)

(* --------------- 3. Lagrange interpolation at x = 0 -------------------- *)
\* A point is a pair <<x, y>>.
\* Inner loop over m (lines 104-113): the two products of the j-th basis
\* coefficient, or the report of an x equal to x_j.
\* Variant of InnerLoop whose numerator multiplies x_m instead of -x_m.
RECURSIVE InnerLoopNoNeg(_, _, _, _, _)
InnerLoopNoNeg(points, j, m, numerator_product, denominator_product) ==
    IF m > Len(points)
    THEN [dup |-> FALSE, num |-> numerator_product, den |-> denominator_product]
    ELSE IF m # j
         THEN IF points[j][1] - points[m][1] = 0
              THEN [dup |-> TRUE, num |-> numerator_product,
                    den |-> denominator_product]
              ELSE InnerLoopNoNeg(points, j, m + 1,
                                  numerator_product * points[m][1],
                                  denominator_product * (points[j][1] - points[m][1]))
         ELSE InnerLoopNoNeg(points, j, m + 1, numerator_product,
                             denominator_product)

RECURSIVE InnerLoop(_, _, _, _, _)
InnerLoop(points, j, m, numerator_product, denominator_product) ==
    IF m > Len(points)
    THEN [dup |-> FALSE, num |-> numerator_product, den |-> denominator_product]
    ELSE IF m # j
         THEN IF points[j][1] - points[m][1] = 0
              THEN [dup |-> TRUE, num |-> numerator_product,
                    den |-> denominator_product]
              ELSE InnerLoop(points, j, m + 1,
                             numerator_product * (-points[m][1]),
                             denominator_product * (points[j][1] - points[m][1]))
         ELSE InnerLoop(points, j, m + 1, numerator_product, denominator_product)

\* Variant of OuterLoop that tests the exactness of y_j * numerator.
RECURSIVE OuterLoopY(_, _, _)
OuterLoopY(points, j, secret) ==
    IF j > Len(points) THEN Ok(secret)
    ELSE LET r == InnerLoop(points, j, 1, 1, 1)
         IN  IF r.dup THEN Err("DuplicateAbscissa")
             ELSE IF r.den = 0 THEN Err("ZeroDenominator")
             ELSE IF PyMod(points[j][2] * r.num, r.den) # 0
                  THEN Err("NonIntegerResult")
             ELSE OuterLoopY(points, j + 1,
                             secret + PyFloorDiv(points[j][2] * r.num, r.den))

\* Outer loop over j (lines 97-131): the first failing term raises, else the
\* term is added to the running secret.
RECURSIVE OuterLoop(_, _, _)
OuterLoop(points, j, secret) ==
    IF j > Len(points) THEN Ok(secret)
    ELSE LET r == InnerLoop(points, j, 1, 1, 1)
         IN  IF r.dup THEN Err("DuplicateAbscissa")
             ELSE IF r.den = 0 THEN Err("ZeroDenominator")
             ELSE IF PyMod(r.num, r.den) # 0 THEN Err("NonIntegerResult")
             ELSE OuterLoop(points, j + 1,
                            secret + points[j][2] * PyFloorDiv(r.num, r.den))

lagrange_constant_term(points) == OuterLoop(points, 1, 0)

(* ------------------- collections.Counter, itertools -------------------- *)
\* A Counter is a dict: its entries in insertion order, one per key.
CounterIncrement(counter, key) ==
    IF \E i \in 1..Len(counter) : counter[i].value = key
    THEN [i \in 1..Len(counter) |->
            IF counter[i].value = key
            THEN [value |-> key, count |-> counter[i].count + 1]
            ELSE counter[i]]
    ELSE Append(counter, [value |-> key, count |-> 1])

\* Variant of most_common that keeps the last maximal item.
most_common_last(counter) ==
    LET last_max == CHOOSE i \in 1..Len(counter) :
                    /\ \A j \in 1..Len(counter) : counter[j].count <= counter[i].count
                    /\ \A j \in (i + 1)..Len(counter) :
                          counter[j].count < counter[i].count
    IN  counter[last_max].value

\* most_common(1)[0]: max() over the items by count, which keeps the first
\* maximal item in insertion order.
most_common(counter) ==
    LET first == CHOOSE i \in 1..Len(counter) :
                    /\ \A j \in 1..Len(counter) : counter[j].count <= counter[i].count
                    /\ \A j \in 1..(i - 1) : counter[j].count < counter[i].count
    IN  counter[first].value

PrependAll(i, seqs) == [j \in 1..Len(seqs) |-> <<i>> \o seqs[j]]

\* itertools.combinations over positions lo..nn: index tuples in
\* lexicographic order.
RECURSIVE CombosFrom(_, _, _)
CombosFrom(lo, nn, kk) ==
    IF kk = 0 THEN << <<>> >>
    ELSE IF lo > nn THEN <<>>
    ELSE PrependAll(lo, CombosFrom(lo + 1, nn, kk - 1)) \o CombosFrom(lo + 1, nn, kk)

combinations(shares, kk) ==
    LET idxs == CombosFrom(1, Len(shares), kk)
    IN  [c \in 1..Len(idxs) |-> [p \in 1..kk |-> shares[idxs[c][p]]]]

(* --------------------------- solve_secret ------------------------------ *)
\* Lines 170-182: resolve the raw records in document order, skipping the
\* ones whose expression raises.
RECURSIVE ResolveFrom(_, _)
ResolveFrom(raw, i) ==
    IF i > Len(raw) THEN <<>>
    ELSE LET y == compute_share_value(raw[i].func_str)
         IN  IF y.kind = "ok"
             THEN <<(<<raw[i].x, y.value>>)>> \o ResolveFrom(raw, i + 1)
             ELSE ResolveFrom(raw, i + 1)

\* Variant of ResolveShares that keeps a record whose expression raised,
\* with the value 0.
ResolveSharesKeepFailed(raw) ==
    [i \in 1..Len(raw) |->
        LET y == compute_share_value(raw[i].func_str)
        IN  <<raw[i].x, IF y.kind = "ok" THEN y.value ELSE 0>>]

ResolveShares(raw) == ResolveFrom(raw, 1)

\* Variant of CastVote that also counts the value carried by a failure.
CastVoteAll(counter, outcome) == CounterIncrement(counter, outcome.value)

\* Lines 194-204: a successful interpolation votes, a failed one is ignored.
CastVote(counter, outcome) ==
    IF outcome.kind = "ok" THEN CounterIncrement(counter, outcome.value)
    ELSE counter

\* Lines 206-216.
Verdict(counter) ==
    IF Len(counter) = 0 THEN Err("NoConsistentSecret")
    ELSE Ok(most_common(counter))

RECURSIVE TallyFrom(_, _, _)
TallyFrom(combos, c, counter) ==
    IF c > Len(combos) THEN counter
    ELSE TallyFrom(combos, c + 1,
                   CastVote(counter, lagrange_constant_term(combos[c])))

\* solve_secret as a function of the loaded document.
solve_secret(nn, kk, raw) ==
    IF ~(1 <= kk /\ kk <= nn) THEN Err("InvalidParameters")
    ELSE LET shares == ResolveShares(raw)
         IN  IF Len(shares) < kk THEN Err("InsufficientShares")
             ELSE Verdict(TallyFrom(combinations(shares, kk), 1, <<>>))

(* ------------------------------ state ---------------------------------- *)
VARIABLES
    pc,                 \* position in solve_secret / lagrange_constant_term
    n, k, raw_shares,   \* the loaded document
    processed_shares,   \* resolved (x, y) points
    combo,              \* number of combinations already tried
    secret_candidates,  \* the Counter
    result,             \* what solve_secret returned or raised
    points, poly,       \* argument of a direct interpolator call, and the
                        \* dealer's polynomial its points were sampled from
    last                \* the latest interpolator call: argument and outcome

vars == <<pc, n, k, raw_shares, processed_shares, combo, secret_candidates,
          result, points, poly, last>>

None == [kind |-> "none", value |-> 0]
NoCall == [points |-> <<>>, outcome |-> None]

(* ------------------------------ inputs --------------------------------- *)
\* x-coordinates (participant indices) of the generated shares.
Xs == {1, 2, 3}

\* The matched expression name(args) with integer arguments.
Call(fn, args) ==
    [matched |-> TRUE, fn |-> fn,
     args |-> [i \in 1..Len(args) |-> [int |-> TRUE, value |-> args[i]]]]

\* Share expressions: Sum() = 0, multiply() = 1, hcf() raises.
Exprs == {Call(<<"S", "u", "m">>, <<>>),
          Call(<<"m", "u", "l", "t", "i", "p", "l", "y">>, <<>>),
          Call(<<"h", "c", "f">>, <<>>)}

RawShareSet == {[x |-> x, func_str |-> e] : x \in Xs, e \in Exprs}

Raw(x, fn, args) == [x |-> x, func_str |-> Call(fn, args)]

\* The example document of the __main__ block.
ScenarioA == <<Raw(1, <<"s", "u", "m">>, <<100, 200>>),
               Raw(2, <<"m", "u", "l", "t", "i", "p", "l", "y">>, <<50, 5>>),
               Raw(3, <<"H", "C", "F">>, <<120, 180>>),
               Raw(4, <<"L", "C", "M">>, <<10, 15>>),
               Raw(5, <<"s", "u", "m">>, <<1000, 2000, 3000>>)>>

\* Two shares against a threshold of three.
ScenarioC == <<Raw(1, <<"s", "u", "m">>, <<10>>), Raw(2, <<"s", "u", "m">>, <<20>>)>>

Start(nn, kk, raw) ==
    /\ pc = "start"
    /\ n = nn /\ k = kk /\ raw_shares = raw
    /\ processed_shares = <<>>
    /\ combo = 0
    /\ secret_candidates = <<>>
    /\ result = None
    /\ points = <<>> /\ poly = <<>>
    /\ last = NoCall

Init ==
    \/ \E len \in 0..MaxShares :
         \E raw \in [1..len -> RawShareSet] :
           \E nn \in {m \in (len - 1)..(len + 1) : m >= 0}, kk \in 0..(len + 1) :
             Start(nn, kk, raw)
    \/ Start(5, 3, ScenarioA)
    \/ \E nn \in {2, 3} : Start(nn, 3, ScenarioC)

(* ------------------------------ actions -------------------------------- *)
\* Lines 160-167.
Validate ==
    /\ pc = "start"
    /\ IF ~(1 <= k /\ k <= n)
       THEN /\ result' = Err("InvalidParameters")
            /\ pc' = "done"
       ELSE /\ pc' = "resolve"
            /\ UNCHANGED result
    /\ UNCHANGED <<n, k, raw_shares, processed_shares, combo, secret_candidates,
                   points, poly, last>>

\* Lines 170-186.
Resolve ==
    /\ pc = "resolve"
    /\ processed_shares' = ResolveShares(raw_shares)
    /\ IF Len(processed_shares') < k
       THEN /\ result' = Err("InsufficientShares")
            /\ pc' = "done"
       ELSE /\ pc' = "loop"
            /\ UNCHANGED result
    /\ UNCHANGED <<n, k, raw_shares, combo, secret_candidates, points, poly, last>>

\* Lines 193-204: one iteration of the loop over the combinations.
Vote ==
    /\ pc = "loop"
    /\ combo < Len(combinations(processed_shares, k))
    /\ LET c == combinations(processed_shares, k)[combo + 1]
           outcome == lagrange_constant_term(c)
       IN  /\ secret_candidates' = CastVote(secret_candidates, outcome)
           /\ last' = [points |-> c, outcome |-> outcome]
    /\ combo' = combo + 1
    /\ UNCHANGED <<pc, n, k, raw_shares, processed_shares, result, points, poly>>

\* Lines 206-216.
Decide ==
    /\ pc = "loop"
    /\ combo = Len(combinations(processed_shares, k))
    /\ result' = Verdict(secret_candidates)
    /\ pc' = "done"
    /\ UNCHANGED <<n, k, raw_shares, processed_shares, combo, secret_candidates,
                   points, poly, last>>

Next == Validate \/ Resolve \/ Vote \/ Decide

Spec == Init /\ [][Next]_vars

(* --------------- direct calls of lagrange_constant_term ---------------- *)
\* The dealer's polynomial: coefs[i] is the coefficient of x^(i-1).
Coefs == {-1, 0, 1}

RECURSIVE Horner(_, _, _)
Horner(coefs, i, x) ==
    IF i > Len(coefs) THEN 0 ELSE coefs[i] + x * Horner(coefs, i + 1, x)

Eval(coefs, x) == Horner(coefs, 1, x)

\* The error added to the sampled values: none, or 1 at one position.
Noise(len) ==
    {[i \in 1..len |-> 0]} \cup
    {[i \in 1..len |-> IF i = bad THEN 1 ELSE 0] : bad \in 1..len}

InitL ==
    \E len \in 0..MaxShares :
      \E coefs \in [1..len -> Coefs], xs \in [1..len -> Xs], noise \in Noise(len) :
        /\ pc = "call"
        /\ poly = coefs
        /\ points = [i \in 1..len |-> <<xs[i], Eval(coefs, xs[i]) + noise[i]>>]
        /\ n = 0 /\ k = 0 /\ raw_shares = <<>>
        /\ processed_shares = <<>>
        /\ combo = 0
        /\ secret_candidates = <<>>
        /\ result = None
        /\ last = NoCall

\* Lines 78-133, called on `points`.
Interpolate ==
    /\ pc = "call"
    /\ last' = [points |-> points, outcome |-> lagrange_constant_term(points)]
    /\ pc' = "returned"
    /\ UNCHANGED <<n, k, raw_shares, processed_shares, combo, secret_candidates,
                   result, points, poly>>

NextL == Interpolate

SpecL == InitL /\ [][NextL]_vars

(* ------------------------- vocabulary of the claims -------------------- *)
DistinctX(pts) ==
    \A i, j \in 1..Len(pts) : i # j => pts[i][1] # pts[j][1]

\* Every point lies on the polynomial with these coefficients.
OnPoly(pts, coefs) ==
    \A i \in 1..Len(pts) : pts[i][2] = Eval(coefs, pts[i][1])

RECURSIVE Binomial(_, _)
Binomial(nn, kk) ==
    IF kk = 0 THEN 1
    ELSE IF nn < kk THEN 0
    ELSE Binomial(nn - 1, kk - 1) + Binomial(nn - 1, kk)

\* Raw records whose expression evaluates without raising.
NumResolved ==
    Cardinality({i \in 1..Len(raw_shares) :
                    compute_share_value(raw_shares[i].func_str).kind = "ok"})

\* The outcome of the interpolator on each enumerated combination.
Outcomes ==
    LET combos == combinations(processed_shares, k)
    IN  [c \in 1..Len(combos) |-> lagrange_constant_term(combos[c])]

\* The combinations, by position in the enumeration, that voted for v.
VotesFor(outcomes, v) == {c \in 1..Len(outcomes) : outcomes[c] = Ok(v)}

FirstVote(outcomes, v) ==
    CHOOSE c \in VotesFor(outcomes, v) : \A d \in VotesFor(outcomes, v) : c <= d

ReachedLoop == 1 <= k /\ k <= n /\ k <= NumResolved

Orderings(len) ==
    {f \in [1..len -> 1..len] : \A i, j \in 1..len : i # j => f[i] # f[j]}

Returned == pc = "returned"

(* ------------------------------ C1 ------------------------------------- *)
\* C1: on k points with pairwise distinct x sampled from an integer
\* polynomial of degree < k, lagrange_constant_term returns P(0).
C1_Exactness ==
    (Returned /\ Len(points) >= 1 /\ DistinctX(points) /\ OnPoly(points, poly))
        => last.outcome = Ok(poly[1])

(* ------------------------------ C2 ------------------------------------- *)
\* C2: when the k-subsets made of points of one integer polynomial P of
\* degree < k are more than half of all k-subsets of the resolved shares,
\* solve_secret returns P(0).
C2_MajorityCorrectness ==
    (pc = "done" /\ ReachedLoop /\ DistinctX(processed_shares))
        => \A coefs \in [1..k -> Coefs] :
             LET genuine == {i \in 1..Len(processed_shares) :
                               processed_shares[i][2]
                                   = Eval(coefs, processed_shares[i][1])}
             IN  2 * Binomial(Cardinality(genuine), k)
                     > Binomial(Len(processed_shares), k)
                   => result = Ok(coefs[1])

(* ------------------------------ C3 ------------------------------------- *)
\* C3 as stated: fewer resolved shares than k always ends in
\* InsufficientShares, whatever n is declared.
C3_InsufficientAlways ==
    (pc = "done" /\ NumResolved < k) => result.kind = "InsufficientShares"

\* C3 as amended: fewer resolved shares than k never returns a value; the
\* failure is InsufficientShares when 1 <= k <= n and InvalidParameters
\* when the declared n is below k.
C3_InsufficientWhenValid ==
    (pc = "done" /\ NumResolved < k)
        => IF 1 <= k /\ k <= n
           THEN result.kind = "InsufficientShares"
           ELSE result.kind = "InvalidParameters"

C3_Witness ==
    /\ pc = "done" /\ raw_shares = ScenarioC /\ n = 3 /\ k = 3
    /\ result.kind = "InsufficientShares"

(* ------------------------------ C4 ------------------------------------- *)
\* C4: a point sequence with two equal x-coordinates always fails with
\* DuplicateAbscissa.
C4_DuplicateRejection ==
    (Returned /\ ~DistinctX(points)) => last.outcome.kind = "DuplicateAbscissa"

(* ------------------------------ C5 ------------------------------------- *)
\* C5: the result depends only on the set of shares and k: presenting the
\* same shares in any other order gives the same result.
C5_Determinism ==
    (pc = "done" /\ DistinctX(processed_shares))
        => \A f \in Orderings(Len(raw_shares)) :
             solve_secret(n, k, [i \in 1..Len(raw_shares) |-> raw_shares[f[i]]])
                 = result

(* ------------------------------ C6 ------------------------------------- *)
\* C6: once the parameters are valid and k shares are resolved, solve_secret
\* ends with a value or NoConsistentSecret, the latter exactly when every
\* combination failed interpolation.
C6_FailuresAbsorbed ==
    (pc = "done" /\ ReachedLoop)
        => LET o == Outcomes
           IN  /\ result.kind \in {"ok", "NoConsistentSecret"}
               /\ result.kind = "NoConsistentSecret"
                      <=> \A c \in 1..Len(o) : o[c].kind # "ok"

C6_Witness ==
    /\ pc = "done" /\ ReachedLoop
    /\ result.kind = "NoConsistentSecret"
    /\ \E c \in 1..Len(Outcomes) : Outcomes[c].kind = "DuplicateAbscissa"
    /\ \E c \in 1..Len(Outcomes) : Outcomes[c].kind = "NonIntegerResult"

(* ------------------------------ C7 ------------------------------------- *)
\* C7: the example document (shares 1:300, 2:250, 3:60, 4:30, 5:6000 in
\* that order, k = 3) reconstructs to 210.
C7_ScenarioA ==
    (pc = "done" /\ raw_shares = ScenarioA /\ n = 5 /\ k = 3)
        => result = Ok(210)

C7_Witness ==
    /\ pc = "done" /\ n = 5 /\ k = 3
    /\ processed_shares
           = <<(<<1, 300>>), (<<2, 250>>), (<<3, 60>>), (<<4, 30>>), (<<5, 6000>>)>>
    /\ result.kind = "ok"

(* ------------------------------ C8 ------------------------------------- *)
\* C8: the returned value has at least as many votes as any other
\* candidate, and any other candidate with as many votes received its first
\* vote later in the enumeration of the combinations.
C8_WinnerSelection ==
    (pc = "done" /\ result.kind = "ok")
        => LET o == Outcomes
               won == Cardinality(VotesFor(o, result.value))
           IN  /\ won >= 1
               /\ \A c \in 1..Len(o) :
                    o[c].kind = "ok" =>
                      LET w == o[c].value
                      IN  /\ Cardinality(VotesFor(o, w)) <= won
                          /\ (w # result.value /\ Cardinality(VotesFor(o, w)) = won)
                               => FirstVote(o, result.value) < FirstVote(o, w)

\* Two candidates tie at the maximum and the winner is not the smallest.
C8_Witness ==
    /\ pc = "done" /\ result.kind = "ok"
    /\ \E c \in 1..Len(Outcomes) :
         /\ Outcomes[c].kind = "ok"
         /\ Outcomes[c].value < result.value
         /\ Cardinality(VotesFor(Outcomes, Outcomes[c].value))
                = Cardinality(VotesFor(Outcomes, result.value))

(* ------------------------------ C9 ------------------------------------- *)
AltYs == {-1, 0, 2}

\* C9: replacing the y-values of the interpolated points by any others
\* leaves the kind of outcome (value or which error) unchanged.
C9_OutcomeKindIgnoresY ==
    Returned
        => \A ys \in [1..Len(points) -> AltYs] :
             lagrange_constant_term(
                 [i \in 1..Len(points) |-> <<points[i][1], ys[i]>>]).kind
               = last.outcome.kind

C9_Witness ==
    /\ Returned /\ Len(points) >= 2
    /\ last.outcome.kind = "NonIntegerResult"
    /\ \E i \in 1..Len(points) : points[i][2] # 0

(* ------------------------------ C10 ------------------------------------ *)
\* C10: when lagrange_constant_term returns a value on k points with
\* pairwise distinct x sampled from an integer polynomial of degree < k,
\* the value is P(0).
C10_SoundOnSuccess ==
    (Returned /\ Len(points) >= 1 /\ DistinctX(points) /\ OnPoly(points, poly)
        /\ last.outcome.kind = "ok")
        => last.outcome.value = poly[1]

C10_Witness ==
    /\ Returned /\ Len(points) = 3 /\ DistinctX(points) /\ OnPoly(points, poly)
    /\ last.outcome.kind = "ok"
    /\ poly[1] # 0 /\ poly[2] # 0 /\ poly[3] # 0

====
